---- MODULE Spec2Model ----
(***************************************************************************)
(* A model of libftpp's data structures (data_structures.hpp): the object  *)
(* pool Pool<TType> with its lease handle Pool::Object, and the            *)
(* serialization buffer DataBuffer; and of two of its design patterns      *)
(* (design_patterns.hpp): StateMachine<TState> and Singleton<TType>.       *)
(*                                                                         *)
(*   Spec           the Pool used by one caller                            *)
(*   SpecThrow      the same, TType's constructor may raise                *)
(*   SpecMT         the Pool shared by two threads, acquire step by step   *)
(*   SpecBuf        the DataBuffer                                         *)
(*   SpecSM         the StateMachine                                       *)
(*   SpecSingleton  the Singleton                                          *)
(*                                                                         *)
(* Slot indices are the code's size_t indices 0..N-1; storage is a TLA+    *)
(* sequence, so slot i is storage[i + 1].                                  *)
(***************************************************************************)
EXTENDS Integers, Sequences, FiniteSets, TLC

(***************************************************************************)
(* Bounds of the model.                                                    *)
(***************************************************************************)
\* largest argument passed to resize
MaxSlots == 2
\* number of Pool::Object handles that can exist at the same time
MaxObjects == 2

(***************************************************************************)
(* The value type TType.  A value records the constructor arguments it was *)
(* built from and whether it was modified through a lease since.  Argument *)
(* 0 stands for the empty argument pack, i.e. the default constructor.     *)
(***************************************************************************)
Args == {0, 1}
ThrowingArgs == {2}

construct(a) == [ctor |-> a, dirty |-> FALSE]
DefaultValue == construct(0)
Throws(a) == a \in ThrowingArgs

VARIABLES
    storage,     \* Pool::storage: the slots' values
    available,   \* Pool::available: FIFO queue of free slot indices
    objects,     \* the Pool::Object handles: id -> [alive, pool, index]
    pLast,       \* the last Pool operation and its outcome
    ahead,       \* per slot: the slots that were free when it became free and
                 \* have not been leased since
    pc,          \* per thread: its position inside Pool::acquire
    idx,         \* per thread: the local variable index of Pool::acquire
    buffer,      \* DataBuffer::buffer: the bytes
    items,       \* every value written to the DataBuffer so far, in order
    nItemsRead,  \* how many of items were read back, type for type
    sync,        \* every read so far asked for the type that was written
    consumed,    \* number of bytes erased from the front of the buffer so far
    bLast,       \* the last DataBuffer operation and its outcome
    currentState,  \* StateMachine::currentState
    stateActions,  \* StateMachine::stateActions: state -> lambda
    transitions,   \* StateMachine::transitions: <<from, to>> -> lambda
    states,        \* StateMachine::states: state -> bool
    added,         \* the states passed to addState so far
    smLast,        \* the last StateMachine operation and its outcome
    instancePtr,   \* Singleton::instancePtr: 0 (nullptr) or the instance
    sHistory       \* the calls of instanciate and instance so far

poolVars == <<storage, available, objects, pLast, ahead>>
threadVars == <<pc, idx>>
bufVars == <<buffer, items, nItemsRead, sync, consumed, bLast>>
smVars == <<currentState, stateActions, transitions, states, added, smLast>>
singletonVars == <<instancePtr, sHistory>>
dpVars == <<smVars, singletonVars>>
vars == <<storage, available, objects, pLast, ahead, pc, idx,
          buffer, items, nItemsRead, sync, consumed, bLast,
          currentState, stateActions, transitions, states, added, smLast,
          instancePtr, sHistory>>

ObjIds == 1..MaxObjects
NoObject == [alive |-> FALSE, pool |-> FALSE, index |-> 0]

\* Object(Pool* p, size_t i): a handle bound to slot i
Object(i) == [alive |-> TRUE, pool |-> TRUE, index |-> i]

\* a move constructor that forgets other.pool = nullptr
MovedFrom_KeepsPool(o) == o

\* the moved-from handle after Object(Object&& other): other.pool = nullptr
MovedFrom(o) == [o EXCEPT !.pool = FALSE]

\* a destructor without the if (pool) test
ObjectDtor_NoNullCheck(av, o) == Append(av, o.index)

\* a destructor that puts the index at the front of the queue
ObjectDtor_PushFront(av, o) == IF o.pool THEN <<o.index>> \o av ELSE av

\* ~Object(): the free queue after the handle o is destroyed
ObjectDtor(av, o) == IF o.pool THEN Append(av, o.index) ELSE av

\* a resize that pushes storage.size() instead of storage.size() - 1
RECURSIVE PoolResize_PushSize(_, _, _)
PoolResize_PushSize(st, av, n) ==
    IF Len(st) < n
    THEN PoolResize_PushSize(Append(st, DefaultValue), Append(av, Len(st) + 1), n)
    ELSE [storage |-> st, available |-> av]

\* Pool::resize: the while loop
RECURSIVE PoolResize(_, _, _)
PoolResize(st, av, n) ==
    IF Len(st) < n
    THEN PoolResize(Append(st, DefaultValue), Append(av, (Len(st) + 1) - 1), n)
    ELSE [storage |-> st, available |-> av]

\* an acquire that reports an empty pool while one slot is still free
PoolAcquire_OffByOne(st, av, a) ==
    IF Len(av) <= 1
    THEN [res |-> "PoolExhausted", storage |-> st, available |-> av, index |-> -1]
    ELSE [res |-> "ok",
          storage |-> [st EXCEPT ![Head(av) + 1] = construct(a)],
          available |-> Tail(av), index |-> Head(av)]

\* an acquire that hands the slot out as it is, without reconstructing it
PoolAcquire_NoReconstruct(st, av, a) ==
    IF av = <<>>
    THEN [res |-> "PoolExhausted", storage |-> st, available |-> av, index |-> -1]
    ELSE [res |-> "ok", storage |-> st, available |-> Tail(av), index |-> Head(av)]

\* Pool::acquire: outcome, and the pool after the call
PoolAcquire(st, av, a) ==
    IF av = <<>>
    THEN [res |-> "PoolExhausted", storage |-> st, available |-> av, index |-> -1]
    ELSE LET index == Head(av)
             popped == Tail(av)
         IN  IF Throws(a)
             THEN [res |-> "CtorFailed", storage |-> st, available |-> popped,
                   index |-> index]
             ELSE [res |-> "ok",
                   storage |-> [st EXCEPT ![index + 1] = construct(a)],
                   available |-> popped, index |-> index]

FreeIds == {g \in ObjIds : ~objects[g].alive}
\* the id given to the next handle that is constructed
NewId == CHOOSE g \in FreeIds : \A k \in FreeIds : g <= k

\* the record of a Pool operation: what was called (op, arg), how it ended
\* (res), the handle (obj) and slot (slot) it concerned, and what the call
\* found (pre): the slot's value before acquire, the size before resize
Op(op, res, obj, slot, arg, pre) ==
    [op |-> op, res |-> res, obj |-> obj, slot |-> slot, arg |-> arg, pre |-> pre]

Threads == {1, 2}

\* the entries of the queue av
Entries(av) == {av[k] : k \in 1..Len(av)}
\* the entries of the queue av that stand before its entry i
Before(av, i) ==
    {av[k] : k \in {j \in 1..Len(av) : \E m \in (j + 1)..Len(av) : av[m] = i}}
\* ahead after resize left the queue av: a new slot has all older entries ahead
AheadResized(old, av, n) ==
    [k \in 1..n |-> IF k <= Len(old) THEN old[k] ELSE Before(av, k - 1)]

InitPool ==
    /\ storage = <<>>
    /\ available = <<>>
    /\ objects = [g \in ObjIds |-> NoObject]
    /\ pLast = Op("none", "ok", 0, -1, 0, 0)
    /\ ahead = <<>>

InitThreads ==
    /\ pc = [t \in Threads |-> "idle"]
    /\ idx = [t \in Threads |-> 0]

InitBuffer ==
    /\ buffer = <<>>
    /\ items = <<>>
    /\ nItemsRead = 0
    /\ sync = TRUE
    /\ consumed = 0
    /\ bLast = [op |-> "none", type |-> "none", res |-> "ok", value |-> 0]

(***************************************************************************)
(* The Pool used by one caller.                                            *)
(***************************************************************************)
\* pool.resize(n)
Resize(n) ==
    LET r == PoolResize(storage, available, n)
    IN  /\ storage' = r.storage
        /\ available' = r.available
        /\ pLast' = Op("resize", "ok", 0, -1, n, Len(storage))
        /\ ahead' = AheadResized(ahead, r.available, Len(r.storage))
        /\ UNCHANGED <<objects, threadVars, bufVars, dpVars>>

\* auto o = pool.acquire(a)
Acquire(a) ==
    LET r == PoolAcquire(storage, available, a)
    IN  /\ r.res = "ok" => FreeIds # {}
        /\ storage' = r.storage
        /\ available' = r.available
        /\ objects' = IF r.res = "ok"
                      THEN [objects EXCEPT ![NewId] = Object(r.index)]
                      ELSE objects
        /\ pLast' = Op("acquire", r.res, IF r.res = "ok" THEN NewId ELSE 0,
                       r.index, a,
                       IF r.index >= 0 THEN storage[r.index + 1] ELSE 0)
        /\ ahead' = IF r.res = "ok"
                    THEN [k \in 1..Len(ahead) |-> ahead[k] \ {r.index}]
                    ELSE ahead
        /\ UNCHANGED <<threadVars, bufVars, dpVars>>

\* Object g(std::move(h))
MoveObject(h) ==
    /\ objects[h].alive
    /\ FreeIds # {}
    /\ objects' = [objects EXCEPT
                     ![NewId] = [alive |-> TRUE, pool |-> objects[h].pool,
                                 index |-> objects[h].index],
                     ![h] = MovedFrom(objects[h])]
    /\ pLast' = Op("move", "ok", h, objects[h].index, NewId, 0)
    /\ UNCHANGED <<storage, available, ahead, threadVars, bufVars, dpVars>>

\* the handle h goes out of scope
DestroyObject(h) ==
    /\ objects[h].alive
    /\ available' = ObjectDtor(available, objects[h])
    /\ objects' = [objects EXCEPT ![h] = NoObject]
    /\ pLast' = Op("destroy", IF objects[h].pool THEN "released" ELSE "nothing",
                   h, objects[h].index, 0, 0)
    /\ ahead' = IF objects[h].pool
                THEN [ahead EXCEPT ![objects[h].index + 1] = Entries(available)]
                ELSE ahead
    /\ UNCHANGED <<storage, threadVars, bufVars, dpVars>>

\* h->...: the caller modifies the leased value through operator->
Mutate(h) ==
    /\ objects[h].alive
    /\ objects[h].pool
    /\ storage' = [storage EXCEPT ![objects[h].index + 1].dirty = TRUE]
    /\ pLast' = Op("mutate", "ok", h, objects[h].index, 0, 0)
    /\ UNCHANGED <<available, objects, ahead, threadVars, bufVars, dpVars>>

\* std::map: the empty map, m[k] (which inserts a value-initialized entry for
\* a key that is absent), and m[k] = v
EmptyMap == [k \in {} |-> FALSE]
MapIndex(m, k, dflt) == IF k \in DOMAIN m THEN m ELSE (k :> dflt) @@ m
MapSet(m, k, v) == [x \in DOMAIN m \cup {k} |-> IF x = k THEN v ELSE m[x]]

\* the state tokens (TState) and the actions (std::function<void()>) in use
StateTokens == {"A", "B"}
Lambdas == {"f", "g"}
\* a value of TState that is none of the tokens the program uses
Indeterminate == "?"

\* a StateMachine with nothing registered whose currentState is cs
InitStateMachine(cs) ==
    /\ currentState = cs
    /\ stateActions = EmptyMap
    /\ transitions = EmptyMap
    /\ states = EmptyMap
    /\ added = {}
    /\ smLast = [op |-> "none", res |-> "ok", s1 |-> "-", s2 |-> "-",
                 f |-> "-", ran |-> <<>>]

\* TType* Singleton<TType>::instancePtr = nullptr;
\* nullptr
NullPtr == [serial |-> 0, value |-> DefaultValue]

InitSingleton ==
    /\ instancePtr = NullPtr
    /\ sHistory = <<>>

Init ==
    /\ InitPool /\ InitThreads /\ InitBuffer
    /\ InitStateMachine("A") /\ InitSingleton

Next ==
    \/ \E n \in 0..MaxSlots : Resize(n)
    \/ \E a \in Args : Acquire(a)
    \/ \E h \in ObjIds : MoveObject(h)
    \/ \E h \in ObjIds : DestroyObject(h)
    \/ \E h \in ObjIds : Mutate(h)

Spec == Init /\ [][Next]_vars

\* The same caller with a value type whose constructor raises for some
\* arguments.
NextThrow ==
    \/ \E n \in 0..MaxSlots : Resize(n)
    \/ \E a \in Args \cup ThrowingArgs : Acquire(a)
    \/ \E h \in ObjIds : MoveObject(h)
    \/ \E h \in ObjIds : DestroyObject(h)
    \/ \E h \in ObjIds : Mutate(h)

SpecThrow == Init /\ [][NextThrow]_vars

(***************************************************************************)
(* The Pool shared by the threads of Threads, without any lock (the code   *)
(* has none).  Thread t keeps its lease in the handle objects[t].  A call  *)
(* of acquire is the sequence of its accesses to the pool: the emptiness   *)
(* test, the read of the queue's front, the pop, and the reconstruction    *)
(* followed by the return of the handle.  An access to an empty queue      *)
(* (front or pop, undefined for std::queue) may leave any result.          *)
(***************************************************************************)
\* the pool after pool.resize(MaxSlots), no acquire in progress
InitMT ==
    /\ storage = PoolResize(<<>>, <<>>, MaxSlots).storage
    /\ available = PoolResize(<<>>, <<>>, MaxSlots).available
    /\ objects = [g \in ObjIds |-> NoObject]
    /\ pLast = Op("resize", "ok", 0, -1, MaxSlots, 0)
    /\ ahead = AheadResized(<<>>, available, MaxSlots)
    /\ InitThreads
    /\ InitBuffer
    /\ InitStateMachine("A") /\ InitSingleton

\* if (available.empty()) throw std::runtime_error("Pool is empty");
MTTest(t) ==
    /\ pc[t] = "idle"
    /\ ~objects[t].alive
    /\ pc' = [pc EXCEPT ![t] = IF available = <<>> THEN "idle" ELSE "front"]
    /\ UNCHANGED <<storage, available, objects, pLast, ahead, idx, bufVars, dpVars>>

\* size_t index = available.front();
MTFront(t) ==
    /\ pc[t] = "front"
    /\ \E i \in (IF available # <<>> THEN {Head(available)}
                 ELSE 0..(Len(storage) - 1)) :
          idx' = [idx EXCEPT ![t] = i]
    /\ pc' = [pc EXCEPT ![t] = "pop"]
    /\ UNCHANGED <<storage, available, objects, pLast, ahead, bufVars, dpVars>>

\* available.pop();
MTPop(t) ==
    /\ pc[t] = "pop"
    /\ available' \in (IF available # <<>> THEN {Tail(available)}
                       ELSE {<<>>} \cup {<<i>> : i \in 0..(Len(storage) - 1)})
    /\ pc' = [pc EXCEPT ![t] = "construct"]
    /\ UNCHANGED <<storage, objects, pLast, ahead, idx, bufVars, dpVars>>

\* storage[index] = std::make_unique<TType>(args...); return Object(this, index);
MTConstruct(t, a) ==
    /\ pc[t] = "construct"
    /\ storage' = [storage EXCEPT ![idx[t] + 1] = construct(a)]
    /\ objects' = [objects EXCEPT ![t] = Object(idx[t])]
    /\ pc' = [pc EXCEPT ![t] = "idle"]
    /\ UNCHANGED <<available, pLast, ahead, idx, bufVars, dpVars>>

\* thread t's handle goes out of scope: ~Object()
MTRelease(t) ==
    /\ pc[t] = "idle"
    /\ objects[t].alive
    /\ Len(available) <= MaxSlots
    /\ available' = ObjectDtor(available, objects[t])
    /\ objects' = [objects EXCEPT ![t] = NoObject]
    /\ UNCHANGED <<storage, pLast, ahead, pc, idx, bufVars, dpVars>>

NextMT ==
    \/ \E t \in Threads : MTTest(t)
    \/ \E t \in Threads : MTFront(t)
    \/ \E t \in Threads : MTPop(t)
    \/ \E t \in Threads : \E a \in Args : MTConstruct(t, a)
    \/ \E t \in Threads : MTRelease(t)

SpecMT == InitMT /\ [][NextMT]_vars

(***************************************************************************)
(* DataBuffer.  A byte is a number in 0..255.  The template operators copy *)
(* the sizeof(T) bytes of the value's representation (std::memcpy), least  *)
(* significant byte first on the hosts the library is built for.           *)
(***************************************************************************)
\* number of values written to one buffer
MaxWrites == 3

FixedTypes == {"uint8_t", "uint16_t", "size_t"}
Sizeof(T) == CASE T = "uint8_t" -> 1
               [] T = "uint16_t" -> 2
               [] T = "size_t" -> 8

\* the values the callers write: fixed-size ones by type, and texts
WrittenValues(T) == CASE T = "uint8_t" -> {7, 255}
                      [] T = "uint16_t" -> {1, 258}
                      [] T = "size_t" -> {}
Strings == {<<>>, <<97>>, <<98, 97>>}

\* Numbers from 256^3 on are all represented by 256^3: a length that large
\* exceeds every buffer of the model, and no such value is ever written.
ValueCap == 256 * 256 * 256

\* std::memcpy(buffer.data() + currentSize, &data, sizeof(T)): the n bytes of v
RECURSIVE ToBytes(_, _)
ToBytes(v, n) ==
    IF n = 0 THEN <<>> ELSE <<v % 256>> \o ToBytes(v \div 256, n - 1)

\* a decoding that takes the first byte as the most significant one
RECURSIVE FromBytes_BigEndian(_)
FromBytes_BigEndian(bs) ==
    IF bs = <<>> THEN 0
    ELSE LET hi == FromBytes_BigEndian(SubSeq(bs, 1, Len(bs) - 1))
             v == IF hi >= ValueCap \div 256 THEN ValueCap
                  ELSE 256 * hi + bs[Len(bs)]
         IN  IF v >= ValueCap THEN ValueCap ELSE v

\* std::memcpy(&data, buffer.data(), sizeof(T)): the value of the bytes bs
RECURSIVE FromBytes(_)
FromBytes(bs) ==
    IF bs = <<>> THEN 0
    ELSE LET hi == FromBytes(Tail(bs))
             v == IF hi >= ValueCap \div 256 THEN ValueCap
                  ELSE Head(bs) + 256 * hi
         IN  IF v >= ValueCap THEN ValueCap ELSE v

\* an erase that removes the last n bytes instead of the first n
Erase_FromBack(b, n) == SubSeq(b, 1, Len(b) - n)

\* buffer.erase(buffer.begin(), buffer.begin() + n)
Erase(b, n) == SubSeq(b, n + 1, Len(b))

\* DataBuffer::operator<<(const T&)
WriteFixed(b, T, v) == b \o ToBytes(v, Sizeof(T))

\* a read that also refuses a buffer holding exactly sizeof(T) bytes
ReadFixed_RefusesExactSize(b, T) ==
    IF Len(b) <= Sizeof(T)
    THEN [res |-> "BufferUnderflow", buffer |-> b, value |-> 0]
    ELSE [res |-> "ok", buffer |-> Erase(b, Sizeof(T)),
          value |-> FromBytes(SubSeq(b, 1, Sizeof(T)))]

\* DataBuffer::operator>>(T&): outcome, the buffer after the call, and data
ReadFixed(b, T) ==
    IF Len(b) < Sizeof(T)
    THEN [res |-> "BufferUnderflow", buffer |-> b, value |-> 0]
    ELSE [res |-> "ok", buffer |-> Erase(b, Sizeof(T)),
          value |-> FromBytes(SubSeq(b, 1, Sizeof(T)))]

\* a text write whose length field counts a terminating zero character
WriteString_CountsTerminator(b, str) ==
    WriteFixed(b, "size_t", Len(str) + 1) \o str

\* DataBuffer::operator<<(const std::string&)
WriteString(b, str) ==
    LET len == Len(str)
        withLen == WriteFixed(b, "size_t", len)
    IN  withLen \o SubSeq(str, 1, len)

\* DataBuffer::operator>>(std::string&): outcome, the buffer after, and str
ReadString(b) ==
    LET r == ReadFixed(b, "size_t")
        len == r.value
    IN  IF r.res # "ok"
        THEN [res |-> r.res, buffer |-> r.buffer, value |-> <<>>]
        ELSE IF Len(r.buffer) < len
        THEN [res |-> "BufferUnderflow", buffer |-> r.buffer, value |-> <<>>]
        ELSE [res |-> "ok", buffer |-> Erase(r.buffer, len),
              value |-> SubSeq(r.buffer, 1, len)]

\* the next written value not yet read back, while all reads matched the writes
InSync == sync /\ nItemsRead < Len(items)
NextItem == items[nItemsRead + 1]

\* the bookkeeping of a read of a value of type T that ended as r
AfterRead(T, r) ==
    LET matched == InSync /\ NextItem.type = T
    IN  /\ buffer' = r.buffer
        /\ consumed' = consumed + (Len(buffer) - Len(r.buffer))
        /\ sync' = IF r.res = "ok" THEN matched
                   ELSE sync /\ r.buffer = buffer
        /\ nItemsRead' = IF r.res = "ok" /\ matched THEN nItemsRead + 1
                         ELSE nItemsRead
        /\ UNCHANGED items

\* buffer << v, v of the fixed-size type T
Write(T, v) ==
    /\ Len(items) < MaxWrites
    /\ buffer' = WriteFixed(buffer, T, v)
    /\ items' = Append(items, [type |-> T, value |-> v])
    /\ bLast' = [op |-> "write", type |-> T, res |-> "ok", value |-> v]
    /\ UNCHANGED <<nItemsRead, sync, consumed, poolVars, threadVars, dpVars>>

\* buffer << str
WriteStr(str) ==
    /\ Len(items) < MaxWrites
    /\ buffer' = WriteString(buffer, str)
    /\ items' = Append(items, [type |-> "string", value |-> str])
    /\ bLast' = [op |-> "writeStr", type |-> "string", res |-> "ok",
                 value |-> str]
    /\ UNCHANGED <<nItemsRead, sync, consumed, poolVars, threadVars, dpVars>>

\* buffer >> data, data of the fixed-size type T
Read(T) ==
    LET r == ReadFixed(buffer, T)
    IN  /\ AfterRead(T, r)
        /\ bLast' = [op |-> "read", type |-> T, res |-> r.res,
                     value |-> r.value]
        /\ UNCHANGED <<poolVars, threadVars, dpVars>>

\* buffer >> str
ReadStr ==
    LET r == ReadString(buffer)
    IN  /\ AfterRead("string", r)
        /\ bLast' = [op |-> "readStr", type |-> "string", res |-> r.res,
                     value |-> r.value]
        /\ UNCHANGED <<poolVars, threadVars, dpVars>>

NextBuf ==
    \/ \E T \in FixedTypes : \E v \in WrittenValues(T) : Write(T, v)
    \/ \E str \in Strings : WriteStr(str)
    \/ \E T \in FixedTypes : Read(T)
    \/ ReadStr

SpecBuf == Init /\ [][NextBuf]_vars

(***************************************************************************)
(* StateMachine<TState>.  A registered action is a callable that returns;  *)
(* what a call executed is recorded as the sequence ran of the actions     *)
(* run, each with the currentState it found.  The member currentState has  *)
(* no initializer: a machine starts with any token as its current state.   *)
(***************************************************************************)
\* StateMachine::addState
SMAddState(st, s) == MapSet(st, s, TRUE)

\* an addTransition that tests the start state only
SMAddTransition_StartOnly(st, tr, from, to, f) ==
    LET st1 == MapIndex(st, from, FALSE)
    IN  IF ~st1[from]
        THEN [res |-> "UnregisteredState", states |-> st1, transitions |-> tr]
        ELSE [res |-> "ok", states |-> st1,
              transitions |-> MapSet(tr, <<from, to>>, f)]

\* StateMachine::addTransition: outcome, states and transitions after the call
SMAddTransition(st, tr, from, to, f) ==
    LET st1 == MapIndex(st, from, FALSE)
        st2 == MapIndex(st1, to, FALSE)
    IN  IF ~st1[from]
        THEN [res |-> "UnregisteredState", states |-> st1, transitions |-> tr]
        ELSE IF ~st2[to]
        THEN [res |-> "UnregisteredState", states |-> st2, transitions |-> tr]
        ELSE [res |-> "ok", states |-> st2,
              transitions |-> MapSet(tr, <<from, to>>, f)]

\* an addAction that does not test the state
SMAddAction_NoCheck(st, sa, s, f) ==
    [res |-> "ok", states |-> MapIndex(st, s, FALSE),
     stateActions |-> MapSet(sa, s, f)]

\* StateMachine::addAction: outcome, states and stateActions after the call
SMAddAction(st, sa, s, f) ==
    LET st1 == MapIndex(st, s, FALSE)
    IN  IF ~st1[s]
        THEN [res |-> "UnregisteredState", states |-> st1, stateActions |-> sa]
        ELSE [res |-> "ok", states |-> st1, stateActions |-> MapSet(sa, s, f)]

\* a transitionTo that sets currentState before it runs the action
SMTransitionTo_SetsFirst(cur, tr, s) ==
    IF <<cur, s>> \notin DOMAIN tr
    THEN [res |-> "InvalidTransition", ran |-> <<>>, currentState |-> cur]
    ELSE [res |-> "ok",
          ran |-> <<[lambda |-> tr[<<cur, s>>], saw |-> s]>>,
          currentState |-> s]

\* a transitionTo that accepts any registered edge into the target
SMTransitionTo_AnySource(cur, tr, s) ==
    IF \A e \in DOMAIN tr : e[2] # s
    THEN [res |-> "InvalidTransition", ran |-> <<>>, currentState |-> cur]
    ELSE LET e == IF <<cur, s>> \in DOMAIN tr THEN <<cur, s>>
                  ELSE CHOOSE x \in DOMAIN tr : x[2] = s
         IN  [res |-> "ok",
              ran |-> <<[lambda |-> tr[e], saw |-> cur]>>,
              currentState |-> s]

\* StateMachine::transitionTo: outcome, the actions run, currentState after
SMTransitionTo(cur, tr, s) ==
    IF <<cur, s>> \notin DOMAIN tr
    THEN [res |-> "InvalidTransition", ran |-> <<>>, currentState |-> cur]
    ELSE [res |-> "ok",
          ran |-> <<[lambda |-> tr[<<cur, s>>], saw |-> cur]>>,
          currentState |-> s]

\* an update that does nothing when the state has no action
SMUpdate_SilentWhenMissing(cur, sa) ==
    IF cur \notin DOMAIN sa
    THEN [res |-> "ok", ran |-> <<>>]
    ELSE [res |-> "ok", ran |-> <<[lambda |-> sa[cur], saw |-> cur]>>]

\* StateMachine::update: outcome and the actions run
SMUpdate(cur, sa) ==
    IF cur \notin DOMAIN sa
    THEN [res |-> "MissingAction", ran |-> <<>>]
    ELSE [res |-> "ok", ran |-> <<[lambda |-> sa[cur], saw |-> cur]>>]

\* StateMachine::hasState, hasTransition, hasAction
HasState(s) == s \in DOMAIN states
HasTransition(from, to) == <<from, to>> \in DOMAIN transitions
HasAction(s) == s \in DOMAIN stateActions

SMOp(op, res, s1, s2, f, ran) ==
    [op |-> op, res |-> res, s1 |-> s1, s2 |-> s2, f |-> f, ran |-> ran]

\* fsm.addState(s)
AddState(s) ==
    /\ states' = SMAddState(states, s)
    /\ added' = added \cup {s}
    /\ smLast' = SMOp("addState", "ok", s, "-", "-", <<>>)
    /\ UNCHANGED <<currentState, stateActions, transitions>>
    /\ UNCHANGED <<poolVars, threadVars, bufVars, singletonVars>>

\* fsm.addTransition(from, to, f)
AddTransition(from, to, f) ==
    LET r == SMAddTransition(states, transitions, from, to, f)
    IN  /\ states' = r.states
        /\ transitions' = r.transitions
        /\ smLast' = SMOp("addTransition", r.res, from, to, f, <<>>)
        /\ UNCHANGED <<currentState, stateActions, added>>
        /\ UNCHANGED <<poolVars, threadVars, bufVars, singletonVars>>

\* fsm.addAction(s, f)
AddAction(s, f) ==
    LET r == SMAddAction(states, stateActions, s, f)
    IN  /\ states' = r.states
        /\ stateActions' = r.stateActions
        /\ smLast' = SMOp("addAction", r.res, s, "-", f, <<>>)
        /\ UNCHANGED <<currentState, transitions, added>>
        /\ UNCHANGED <<poolVars, threadVars, bufVars, singletonVars>>

\* fsm.transitionTo(s)
TransitionTo(s) ==
    LET r == SMTransitionTo(currentState, transitions, s)
    IN  /\ currentState' = r.currentState
        /\ smLast' = SMOp("transitionTo", r.res, s, "-", "-", r.ran)
        /\ UNCHANGED <<stateActions, transitions, states, added>>
        /\ UNCHANGED <<poolVars, threadVars, bufVars, singletonVars>>

\* fsm.update()
Update ==
    LET r == SMUpdate(currentState, stateActions)
    IN  /\ smLast' = SMOp("update", r.res, "-", "-", "-", r.ran)
        /\ UNCHANGED <<currentState, stateActions, transitions, states, added>>
        /\ UNCHANGED <<poolVars, threadVars, bufVars, singletonVars>>

InitSM ==
    /\ InitPool /\ InitThreads /\ InitBuffer /\ InitSingleton
    /\ \E cs \in StateTokens \cup {Indeterminate} : InitStateMachine(cs)

NextSM ==
    \/ \E s \in StateTokens : AddState(s)
    \/ \E from \in StateTokens, to \in StateTokens, f \in Lambdas :
          AddTransition(from, to, f)
    \/ \E s \in StateTokens, f \in Lambdas : AddAction(s, f)
    \/ \E s \in StateTokens : TransitionTo(s)
    \/ Update

SpecSM == InitSM /\ [][NextSM]_vars

(***************************************************************************)
(* Singleton<TType>.  instancePtr is NullPtr or the instance created by    *)
(* the serial-th call; sHistory is the sequence of the calls made, each    *)
(* with its outcome and, for instance(), the pointer returned.             *)
(***************************************************************************)
MaxCalls == 4

NewInstance(serial, a) == [serial |-> serial, value |-> construct(a)]

\* an instanciate that does not test instancePtr
SingletonInstanciate_NoCheck(ptr, a, serial) ==
    IF Throws(a) THEN [res |-> "CtorFailed", instancePtr |-> ptr]
    ELSE [res |-> "ok", instancePtr |-> NewInstance(serial, a)]

\* Singleton::instanciate: outcome and instancePtr after the call
SingletonInstanciate(ptr, a, serial) ==
    IF ptr # NullPtr THEN [res |-> "Instance already exists", instancePtr |-> ptr]
    ELSE IF Throws(a) THEN [res |-> "CtorFailed", instancePtr |-> ptr]
    ELSE [res |-> "ok", instancePtr |-> NewInstance(serial, a)]

\* Singleton::instance
SingletonInstance(ptr) == ptr

Call(op, arg, res, ret) == [op |-> op, arg |-> arg, res |-> res, ret |-> ret]

\* Singleton<T>::instanciate(a)
Instanciate(a) ==
    /\ Len(sHistory) < MaxCalls
    /\ LET r == SingletonInstanciate(instancePtr, a, Len(sHistory) + 1)
       IN  /\ instancePtr' = r.instancePtr
           /\ sHistory' = Append(sHistory, Call("instanciate", a, r.res, NullPtr))
    /\ UNCHANGED <<poolVars, threadVars, bufVars, smVars>>

\* Singleton<T>::instance()
Instance ==
    /\ Len(sHistory) < MaxCalls
    /\ sHistory' = Append(sHistory,
                          Call("instance", 0, "ok",
                               SingletonInstance(instancePtr)))
    /\ UNCHANGED instancePtr
    /\ UNCHANGED <<poolVars, threadVars, bufVars, smVars>>

NextSingleton ==
    \/ \E a \in Args \cup ThrowingArgs : Instanciate(a)
    \/ Instance

SpecSingleton == Init /\ [][NextSingleton]_vars

(***************************************************************************)
(* Properties of the Pool used by one caller (Spec).                       *)
(***************************************************************************)
Slots == 0..(Len(storage) - 1)
\* the live (not moved-from) handles that hold slot i
Holders(i) == {g \in ObjIds : objects[g].alive /\ objects[g].pool
                                /\ objects[g].index = i}
Leases == {g \in ObjIds : objects[g].alive /\ objects[g].pool}
Count(i, av) == Cardinality({k \in 1..Len(av) : av[k] = i})


\* C1: every slot index 0..N-1 is in exactly one place: once in the free queue
\* available, or held by exactly one live (not moved-from) lease; the queue and
\* the leases name only existing slots, so there are never more outstanding
\* leases than slots.
C1_SlotInOnePlace ==
    /\ \A i \in Slots :
          \/ Count(i, available) = 1 /\ Holders(i) = {}
          \/ Count(i, available) = 0 /\ Cardinality(Holders(i)) = 1
    /\ \A k \in 1..Len(available) : available[k] \in Slots
    /\ \A g \in Leases : objects[g].index \in Slots
    /\ Cardinality(Leases) <= Len(storage)

\* a lease was moved to a new handle while another slot is free: the moved-from
\* handle is still alive and the slot is held by the new handle only
C1_Witness ==
    /\ pLast.op = "move"
    /\ objects[pLast.obj].alive /\ ~objects[pLast.obj].pool
    /\ Holders(pLast.slot) = {pLast.arg}
    /\ available # <<>>

\* C2: acquire fails with PoolExhausted exactly when the free queue is empty at
\* call time, a failed acquire changes nothing of storage, queue and leases, and
\* with a non-empty queue acquire succeeds and returns a new lease.
C2_AcquireFailsIffEmpty ==
    [][pLast'.op = "acquire" =>
         /\ (pLast'.res = "PoolExhausted") <=> (available = <<>>)
         /\ pLast'.res = "PoolExhausted" =>
               UNCHANGED <<storage, available, objects>>
         /\ available # <<>> =>
               /\ pLast'.res = "ok"
               /\ ~objects[pLast'.obj].alive
               /\ objects'[pLast'.obj].alive /\ objects'[pLast'.obj].pool
               /\ objects'[pLast'.obj].index \in Slots
               /\ \A g \in ObjIds \ {pLast'.obj} : objects'[g] = objects[g]]_vars

\* acquire failed on a pool that has slots, all of them leased
C2_Witness ==
    /\ pLast.op = "acquire" /\ pLast.res = "PoolExhausted"
    /\ Len(storage) = MaxSlots
    /\ Cardinality(Leases) = MaxSlots

\* C3: a slot index is pushed onto the free queue only by the destruction of the
\* handle that owns its lease (or by resize creating it), once, at the tail;
\* destroying a moved-from handle, moving and using a lease push nothing; right
\* after a release the queue is non-empty and an acquire called next does not
\* fail with PoolExhausted.
C3_ReleasedOnceByOwner ==
    [][/\ pLast'.op = "destroy" =>
            /\ objects[pLast'.obj].alive /\ ~objects'[pLast'.obj].alive
            /\ available' = IF objects[pLast'.obj].pool
                            THEN Append(available, objects[pLast'.obj].index)
                            ELSE available
            /\ (pLast'.res = "released") <=> objects[pLast'.obj].pool
            /\ pLast'.res = "released" => available' # <<>>
       /\ pLast'.op \in {"move", "mutate"} => available' = available
       /\ \A i \in 0..(MaxSlots - 1) :
            Count(i, available') > Count(i, available) =>
               /\ Count(i, available') = Count(i, available) + 1
               /\ \/ /\ pLast'.op = "destroy"
                     /\ Holders(i) = {pLast'.obj}
                  \/ pLast'.op = "resize" /\ i \notin Slots
       /\ (pLast.op = "destroy" /\ pLast.res = "released"
                                /\ pLast'.op = "acquire") =>
               pLast'.res # "PoolExhausted"]_vars

\* a moved-from handle was destroyed while the handle its lease moved to is
\* still alive: the slot is not in the queue
C3_Witness ==
    /\ pLast.op = "destroy" /\ pLast.res = "nothing"
    /\ Holders(pLast.slot) # {}
    /\ Count(pLast.slot, available) = 0

\* C4: when a lease is released and acquire is called next, the new lease
\* refers to the slot of the lease that was just released (the class
\* documentation's usage example).
C4_SameSlotAfterRelease ==
    [][(pLast.op = "destroy" /\ pLast.res = "released"
           /\ pLast'.op = "acquire" /\ pLast'.res = "ok") =>
          pLast'.slot = pLast.slot]_vars

\* C5: a successful acquire(a) leaves construct(a) in the leased slot, whatever
\* the slot held before, and changes no other slot.
C5_AcquireReconstructs ==
    [][(pLast'.op = "acquire" /\ pLast'.res = "ok") =>
          /\ pLast'.slot = objects'[pLast'.obj].index
          /\ pLast'.pre = storage[pLast'.slot + 1]
          /\ storage'[pLast'.slot + 1] = construct(pLast'.arg)
          /\ ~storage'[pLast'.slot + 1].dirty
          /\ Len(storage') = Len(storage)
          /\ \A i \in Slots \ {pLast'.slot} :
                storage'[i + 1] = storage[i + 1]]_vars

\* a slot that was built from other arguments and modified under an earlier
\* lease has just been leased again
C5_Witness ==
    /\ pLast.op = "acquire" /\ pLast.res = "ok"
    /\ pLast.pre.dirty
    /\ pLast.pre.ctor # pLast.arg
    /\ storage[pLast.slot + 1] = construct(pLast.arg)

Max(a, b) == IF a >= b THEN a ELSE b

\* C6: resize(n) leaves max(old size, n) slots; the old slots' values, the old
\* queue entries and their order and all handles are unchanged; exactly the new
\* indices are appended to the queue, in increasing order, and the new slots
\* are default-constructed; with n <= old size nothing changes.
C6_ResizeOnlyGrows ==
    [][pLast'.op = "resize" =>
         LET n == pLast'.arg
             old == Len(storage)
         IN  /\ pLast'.pre = old
             /\ Len(storage') = Max(old, n)
             /\ SubSeq(storage', 1, old) = storage
             /\ \A i \in old..(Len(storage') - 1) : storage'[i + 1] = DefaultValue
             /\ Len(available') = Len(available) + (Len(storage') - old)
             /\ SubSeq(available', 1, Len(available)) = available
             /\ \A k \in 1..(Len(storage') - old) :
                   available'[Len(available) + k] = old + k - 1
             /\ objects' = objects
             /\ n <= old => UNCHANGED <<storage, available, objects>>]_vars

\* resize has grown a pool whose old slot is leased and holds a modified value:
\* the queue holds the new index only
C6_Witness ==
    /\ pLast.op = "resize" /\ pLast.pre < Len(storage) /\ pLast.pre > 0
    /\ Holders(0) # {}
    /\ storage[1].dirty
    /\ available = <<pLast.pre>>

C20_CtorFailureNoEffect ==
    [][(pLast'.op = "acquire" /\ pLast'.res = "CtorFailed") =>
          /\ UNCHANGED <<storage, available, objects>>
          /\ pLast'.slot \in Entries(available')]_vars

(***************************************************************************)
(* The Pool shared by two threads (SpecMT).                                *)
(***************************************************************************)
\* C7: with two threads calling acquire and releasing leases concurrently, no
\* two live leases refer to the same slot, no slot index occurs twice in the
\* free queue, and no slot index is lost: whenever no acquire is in progress
\* every slot is in the queue or leased.
C7_ThreadSafe ==
    \A i \in Slots :
       /\ Cardinality(Holders(i)) <= 1
       /\ Count(i, available) <= 1
       /\ (\A t \in Threads : pc[t] = "idle") =>
             (Count(i, available) > 0 \/ Holders(i) # {})

(***************************************************************************)
(* Properties of the DataBuffer (SpecBuf).                                 *)
(***************************************************************************)
\* C8: while every read asks for the type that was written at that place, a
\* fixed-size read succeeds and returns exactly the value that was written, and
\* once as many values were read as were written the buffer is empty.
C8_FixedRoundTrip ==
    [][(bLast'.op = "read" /\ InSync /\ NextItem.type = bLast'.type) =>
          /\ bLast'.res = "ok"
          /\ bLast'.value = NextItem.value
          /\ nItemsRead' = nItemsRead + 1
          /\ nItemsRead' = Len(items) => buffer' = <<>>]_vars

\* three fixed-size values of two types were written and read back in order
C8_Witness ==
    /\ bLast.op = "read" /\ bLast.res = "ok"
    /\ sync /\ nItemsRead = Len(items) /\ Len(items) = 3
    /\ \A k \in 1..3 : items[k].type \in FixedTypes
    /\ items[1].type # items[2].type
    /\ items[2].value = 258
    /\ buffer = <<>>

\* C9: a text write appends the length field and then the text's bytes; a text
\* read that meets a written text returns the identical characters (the empty
\* text included) and removes exactly the bytes that write appended.
C9_TextRoundTrip ==
    [][/\ bLast'.op = "writeStr" =>
            /\ Len(buffer') = Len(buffer) + Sizeof("size_t") + Len(bLast'.value)
            /\ SubSeq(buffer', 1, Len(buffer)) = buffer
       /\ (bLast'.op = "readStr" /\ InSync /\ NextItem.type = "string") =>
            /\ bLast'.res = "ok"
            /\ bLast'.value = NextItem.value
            /\ buffer' = Erase(buffer, Sizeof("size_t") + Len(NextItem.value))
            /\ consumed' = consumed + Sizeof("size_t") + Len(NextItem.value)]_vars

\* the empty text and a two-character text were written and read back
C9_Witness ==
    /\ bLast.op = "readStr" /\ bLast.res = "ok" /\ bLast.value = <<98, 97>>
    /\ sync /\ nItemsRead = 2
    /\ items[1] = [type |-> "string", value |-> <<>>]
    /\ items[2] = [type |-> "string", value |-> <<98, 97>>]
    /\ buffer = <<>>

\* C10: a fixed-size read of type T fails with BufferUnderflow exactly when
\* fewer than sizeof(T) bytes are in the buffer, and a failed read leaves the
\* bytes and their number as they were.
C10_FixedReadUnderflow ==
    [][bLast'.op = "read" =>
          /\ (bLast'.res = "BufferUnderflow") <=>
                (Len(buffer) < Sizeof(bLast'.type))
          /\ bLast'.res \in {"ok", "BufferUnderflow"}
          /\ bLast'.res = "BufferUnderflow" =>
                buffer' = buffer /\ consumed' = consumed
          /\ bLast'.res = "ok" =>
                Len(buffer') = Len(buffer) - Sizeof(bLast'.type)]_vars

\* a two-byte read failed on a buffer that holds one byte
C10_Witness ==
    /\ bLast.op = "read" /\ bLast.type = "uint16_t"
    /\ bLast.res = "BufferUnderflow"
    /\ Len(buffer) = 1

\* C11: a text read that fails with BufferUnderflow, for either reason, leaves
\* the buffer holding exactly the bytes it held before the call.
C11_FailedTextReadNoEffect ==
    [][(bLast'.op = "readStr" /\ bLast'.res = "BufferUnderflow") =>
          buffer' = buffer /\ consumed' = consumed]_vars

\* the bytes a written value adds to the buffer
Encode(item) ==
    IF item.type = "string" THEN WriteString(<<>>, item.value)
    ELSE WriteFixed(<<>>, item.type, item.value)

\* all bytes written so far, in the order of the writes
RECURSIVE WrittenBytes(_)
WrittenBytes(its) ==
    IF its = <<>> THEN <<>>
    ELSE WrittenBytes(SubSeq(its, 1, Len(its) - 1)) \o Encode(its[Len(its)])

\* C17: after any interleaving of writes and reads the buffer holds the bytes
\* written so far, in the order of the writes, without the first consumed ones
\* (every byte erased from the front counts as consumed): its length is the
\* number of bytes written minus the number consumed, and the bytes of a later
\* write stand behind all bytes that were there before.
C17_FifoByteQueue ==
    LET written == WrittenBytes(items)
    IN  /\ consumed <= Len(written)
        /\ Len(buffer) = Len(written) - consumed
        /\ buffer = Erase(written, consumed)

\* a value was written after an earlier value had been read, behind bytes that
\* were still unread
C17_Witness ==
    /\ bLast.op = "write" /\ bLast.type = "uint8_t"
    /\ consumed > 0
    /\ Len(items) = 3
    /\ Len(buffer) > 1
    /\ buffer[Len(buffer)] = bLast.value

(***************************************************************************)
(* Properties of the StateMachine (SpecSM).                                *)
(***************************************************************************)
\* C12: addTransition(from, to, f) fails with UnregisteredState exactly
\* when from or to was never passed to addState, and addAction(s, f)
\* exactly when s was never passed to addState; a failed call leaves the
\* edges and the actions as they were, a successful call registers f for
\* the edge (from, to) or for the state s and changes no other edge or
\* action.
C12_UnregisteredState ==
    [][/\ (smLast'.op = "addTransition") =>
             /\ (smLast'.res = "UnregisteredState")
                    <=> ~({smLast'.s1, smLast'.s2} \subseteq added)
             /\ (smLast'.res # "UnregisteredState") => smLast'.res = "ok"
             /\ (smLast'.res = "UnregisteredState") =>
                    UNCHANGED <<transitions, stateActions>>
             /\ (smLast'.res = "ok") =>
                    /\ transitions' =
                         MapSet(transitions, <<smLast'.s1, smLast'.s2>>,
                                smLast'.f)
                    /\ <<smLast'.s1, smLast'.s2>> \in DOMAIN transitions'
                    /\ UNCHANGED stateActions
       /\ (smLast'.op = "addAction") =>
             /\ (smLast'.res = "UnregisteredState")
                    <=> (smLast'.s1 \notin added)
             /\ (smLast'.res # "UnregisteredState") => smLast'.res = "ok"
             /\ (smLast'.res = "UnregisteredState") =>
                    UNCHANGED <<transitions, stateActions>>
             /\ (smLast'.res = "ok") =>
                    /\ stateActions' =
                         MapSet(stateActions, smLast'.s1, smLast'.f)
                    /\ smLast'.s1 \in DOMAIN stateActions'
                    /\ UNCHANGED transitions]_vars

\* an edge between two different added states has just been registered
\* while the reverse edge carries the other action
C12_Witness ==
    /\ smLast.op = "addTransition" /\ smLast.res = "ok"
    /\ smLast.s1 = "A" /\ smLast.s2 = "B"
    /\ added = {"A", "B"}
    /\ HasTransition("B", "A")
    /\ transitions[<<"A", "B">>] = smLast.f
    /\ transitions[<<"B", "A">>] # smLast.f

\* C13: whenever the edge (currentState, target) is registered,
\* transitionTo(target) succeeds, runs that edge's action exactly once and
\* no other action, the action finds currentState still equal to the source
\* state, and currentState is the target afterwards.
C13_TransitionRunsEdgeAction ==
    [][(/\ smLast'.op = "transitionTo"
        /\ HasTransition(currentState, smLast'.s1)) =>
             /\ smLast'.res = "ok"
             /\ smLast'.ran =
                  <<[lambda |-> transitions[<<currentState, smLast'.s1>>],
                     saw |-> currentState]>>
             /\ currentState' = smLast'.s1]_vars

\* a transition from A to B has run g while other edges and the per-state
\* actions carry f
C13_Witness ==
    /\ smLast.op = "transitionTo" /\ smLast.res = "ok"
    /\ smLast.ran = <<[lambda |-> "g", saw |-> "A"]>>
    /\ currentState = "B"
    /\ HasTransition("B", "A") /\ transitions[<<"B", "A">>] = "f"
    /\ HasAction("A") /\ stateActions["A"] = "f"
    /\ HasAction("B") /\ stateActions["B"] = "f"

\* C14: transitionTo(target) fails with InvalidTransition exactly when no
\* edge (currentState, target) is registered; the failed call runs no
\* action and leaves currentState and the registrations unchanged, whatever
\* other edges exist.
C14_InvalidTransition ==
    [][(smLast'.op = "transitionTo") =>
          /\ (smLast'.res = "InvalidTransition")
                 <=> ~HasTransition(currentState, smLast'.s1)
          /\ (smLast'.res = "InvalidTransition") =>
                 /\ smLast'.ran = <<>>
                 /\ UNCHANGED <<currentState, stateActions, transitions,
                                states>>]_vars

\* transitionTo(B) has just failed in state B although the edges (A,B) and
\* (B,A) are registered
C14_Witness ==
    /\ smLast.op = "transitionTo" /\ smLast.res = "InvalidTransition"
    /\ smLast.s1 = "B"
    /\ currentState = "B"
    /\ HasTransition("A", "B")
    /\ HasTransition("B", "A")
    /\ ~HasTransition("B", "B")

\* C15: update fails with MissingAction on every call made while no action
\* is registered for currentState, and the failed call changes nothing;
\* when an action is registered for currentState, update runs exactly that
\* action once and leaves currentState unchanged.
C15_UpdateMissingAction ==
    [][(smLast'.op = "update") =>
          IF ~HasAction(currentState)
          THEN /\ smLast'.res = "MissingAction"
               /\ smLast'.ran = <<>>
               /\ UNCHANGED <<currentState, stateActions, transitions,
                              states>>
          ELSE /\ smLast'.res = "ok"
               /\ smLast'.ran = <<[lambda |-> stateActions[currentState],
                                   saw |-> currentState]>>
               /\ UNCHANGED <<currentState, stateActions, transitions,
                              states>>]_vars

\* update has run the action of the current state, which differs from the
\* action of the other state, after a transition had been made
C15_Witness ==
    /\ smLast.op = "update" /\ smLast.res = "ok"
    /\ currentState = "B"
    /\ HasTransition("A", "B")
    /\ HasAction("A") /\ stateActions["A"] = "f"
    /\ smLast.ran = <<[lambda |-> "g", saw |-> "B"]>>

\* C19: hasState(s) is true exactly when addState(s) was called before,
\* also for a state that was only named in a call that failed with
\* UnregisteredState.
C19_HasStateIffAdded ==
    \A s \in StateTokens : HasState(s) <=> s \in added

\* the tokens registered by addState: an entry of states that a failed
\* addTransition or addAction inserted has the value false
Registered == {s \in DOMAIN states : states[s]}

\* every edge joins registered states, every action belongs to one
EdgesAndActionsRegistered ==
    /\ Registered = added
    /\ \A e \in DOMAIN transitions : e[1] \in added /\ e[2] \in added
    /\ \A s \in DOMAIN stateActions : s \in added

\* no call removes a state, an edge or an action
NothingRemoved ==
    /\ added \subseteq added'
    /\ Registered \subseteq Registered'
    /\ DOMAIN transitions \subseteq DOMAIN transitions'
    /\ DOMAIN stateActions \subseteq DOMAIN stateActions'
    /\ \A e \in DOMAIN transitions :
          transitions'[e] # transitions[e] =>
             /\ smLast'.op = "addTransition" /\ smLast'.res = "ok"
             /\ e = <<smLast'.s1, smLast'.s2>>
             /\ transitions'[e] = smLast'.f
    /\ \A s \in DOMAIN stateActions :
          stateActions'[s] # stateActions[s] =>
             /\ smLast'.op = "addAction" /\ smLast'.res = "ok"
             /\ s = smLast'.s1
             /\ stateActions'[s] = smLast'.f

\* C21: after any sequence of addState, addTransition, addAction,
\* transitionTo and update calls, failed ones included, every registered
\* edge has both endpoints registered by addState and every registered
\* action belongs to a state registered by addState; no call removes a
\* state, an edge or an action (registering again only replaces the
\* action); and after every successful transitionTo currentState is a
\* state registered by addState.
C21_RegistrationsKept ==
    /\ []EdgesAndActionsRegistered
    /\ [][/\ NothingRemoved
          /\ (smLast'.op = "transitionTo" /\ smLast'.res = "ok") =>
                currentState' \in added']_vars

\* a transition over the self edge of A has succeeded in a machine where B
\* was only named in failed calls and A has its own action
C21_Witness ==
    /\ smLast.op = "transitionTo" /\ smLast.res = "ok"
    /\ currentState = "A"
    /\ added = {"A"}
    /\ HasState("B") /\ ~states["B"]
    /\ DOMAIN transitions = {<<"A", "A">>}
    /\ DOMAIN stateActions = {"A"}
    /\ stateActions["A"] # transitions[<<"A", "A">>]

(***************************************************************************)
(* Properties of the Singleton (SpecSingleton).                            *)
(***************************************************************************)
\* the calls of sHistory before the i-th that created the instance
Created(i) ==
    {j \in 1..(i - 1) :
        sHistory[j].op = "instanciate" /\ sHistory[j].res = "ok"}

\* C16: over any sequence of instanciate and instance calls, an instanciate
\* creates the instance only when none was created before (and it does so
\* whenever the constructor returns), every instanciate made after that
\* fails with "Instance already exists" and leaves the instance in place;
\* instance() returns null before the instance is created and that same
\* instance on every call after it.
C16_InstanciateOnce ==
    /\ \A i \in 1..Len(sHistory) :
          /\ sHistory[i].op = "instanciate" =>
                IF Created(i) # {}
                THEN sHistory[i].res = "Instance already exists"
                ELSE sHistory[i].res =
                        IF Throws(sHistory[i].arg) THEN "CtorFailed" ELSE "ok"
          /\ sHistory[i].op = "instance" =>
                IF Created(i) = {}
                THEN sHistory[i].ret = NullPtr
                ELSE \E j \in Created(i) :
                        sHistory[i].ret = NewInstance(j, sHistory[j].arg)
    /\ Cardinality(Created(Len(sHistory) + 1)) <= 1
    /\ instancePtr =
          IF Created(Len(sHistory) + 1) = {} THEN NullPtr
          ELSE LET j == CHOOSE k \in Created(Len(sHistory) + 1) : TRUE
               IN  NewInstance(j, sHistory[j].arg)

\* instance() returned null, the instance was created, a second instanciate
\* with another argument failed, and instance() returned the first instance
C16_Witness ==
    /\ Len(sHistory) = 4
    /\ sHistory[1] = Call("instance", 0, "ok", NullPtr)
    /\ sHistory[2] = Call("instanciate", 0, "ok", NullPtr)
    /\ sHistory[3] = Call("instanciate", 1, "Instance already exists",
                        NullPtr)
    /\ sHistory[4] = Call("instance", 0, "ok", NewInstance(2, 0))

====
